---- MODULE Spec2Model ----
(***************************************************************************)
(* Drag/Drop feature for Editor.js (src/src/index.js, class DragDrop).     *)
(*                                                                         *)
(* The page holds two editors that each own a DragDrop instance (surfaces  *)
(* 1 and 2; the second one may be configured read-only) and one editor     *)
(* that has no DragDrop instance bound to it.  Every surface keeps its     *)
(* blocks as a sequence of block elements; an element carries its saved    *)
(* data and the border the plugin painted on its content.                  *)
(*                                                                         *)
(* The Editor.js blocks API (move / insert / delete / save /               *)
(* getBlocksCount / getCurrentBlockIndex) is the host editor's; it is      *)
(* modelled at the places the plugin calls it.                             *)
(*                                                                         *)
(* The browser runs one drag gesture at a time: dragstart, any number of   *)
(* drag events, at most one drop, then dragend.  this.save() resolves at   *)
(* any later moment, also after dragend or within a later gesture.         *)
(***************************************************************************)
EXTENDS Integers, Sequences, FiniteSets, TLC

\* `null`, the value the constructor gives startBlock, insertPoint and targetInstance
NULL == -1

\* the editor of the page that has no dragDropInstance (getInstance gives undefined)
Unbound == 0

\* number of drag gestures (dragstart events) explored
MaxGestures == 1

\* number of drop events one gesture may receive when drops are re-entrant
MaxDropsPerGesture == 2

Surfaces == 1..2

\* where an element of the page can lie: in a surface's holder, or in the unbound editor
Places == Surfaces \cup {Unbound}

VARIABLES
    blocks,          \* blocks[s]: the block elements of surface s, in document order
    readOnly,        \* readOnly[s]: configuration.readOnly of surface s
    startBlock,      \* startBlock[c]: this.startBlock of controller c
    insertPoint,     \* insertPoint[c]: this.insertPoint of controller c
    targetInstance,  \* targetInstance[c]: this.targetInstance of controller c
    dragging,        \* the controller whose settings button is being dragged, or NULL
    pending,         \* moveBlocks calls suspended at `await this.save()`
    pointer,         \* the pointer and block geometry of the last drag event, when recorded (history)
    calls,           \* the API and callback calls the last step made (history)
    gesture          \* bookkeeping of the current gesture (history)

vars == <<blocks, readOnly, startBlock, insertPoint, targetInstance, dragging,
          pending, pointer, calls, gesture>>

----------------------------------------------------------------------------
\* Block elements and their geometry

\* the edges of a block's content that can carry the border style
Borders == {"top", "bottom"}

\* a block element: its saved data and the edges that carry the border
Block(d) == [data |-> d, border |-> {}]

\* the rendered height of a block: blocks of odd data are 3 high, the others 2
Height(b) == 2 + (b.data % 2)

RECURSIVE Top(_, _)
\* rect.top of the element at (0-based) index i of the sequence bs
Top(bs, i) == IF i = 0 THEN 0 ELSE Top(bs, i - 1) + Height(bs[i])

\* the documents the two editors are constructed with
InitBlocks ==
    [s \in Surfaces |-> IF s = 1 THEN <<Block(1), Block(2), Block(3)>>
                                  ELSE <<Block(4)>>]

\* the blocks of the editor that has no DragDrop instance
UnboundEditor == <<Block(8), Block(9)>>

----------------------------------------------------------------------------
\* Editor.js blocks API, as the plugin uses it

getBlocksCount(bs) == Len(bs)

RemoveAt(bs, i) == SubSeq(bs, 1, i) \o SubSeq(bs, i + 2, Len(bs))

InsertAt(bs, i, b) == SubSeq(bs, 1, i) \o <<b>> \o SubSeq(bs, i + 1, Len(bs))

\* api.move(toIndex, fromIndex): nothing happens on an index that is no block's
apiMove(bs, toIndex, fromIndex) ==
    IF fromIndex \in 0..(Len(bs) - 1) /\ toIndex \in 0..(Len(bs) - 1)
    THEN InsertAt(RemoveAt(bs, fromIndex), toIndex, bs[fromIndex + 1])
    ELSE bs

\* api.delete(index)
apiDelete(bs, index) ==
    IF index \in 0..(Len(bs) - 1) THEN RemoveAt(bs, index) ELSE bs

\* api.insert(type, data, null, index, false): a new element, placed at index
\* (at the end when index is beyond the last block)
apiInsert(bs, d, index) ==
    InsertAt(bs, IF index > Len(bs) THEN Len(bs) ELSE index, Block(d))

\* this.save(): the saved data of every block, in order
save(bs) == [i \in 1..Len(bs) |-> bs[i].data]

Call(c, s, op, args) == [by |-> c, api |-> s, op |-> op, args |-> args]

----------------------------------------------------------------------------
\* Methods of DragDrop

getInstance(place) == IF place \in Surfaces THEN place ELSE NULL

\* calcInsertPoint comparing with >= instead of >
calcInsertPointInclusive(clientY, rectTop, rectHeight, blockIndex) ==
    IF 2 * clientY >= 2 * rectTop + rectHeight THEN blockIndex + 1 ELSE blockIndex

calcInsertPoint(clientY, rectTop, rectHeight, blockIndex) ==
    \* event.clientY > rect.top + rect.height / 2, without the division
    IF 2 * clientY > 2 * rectTop + rectHeight THEN blockIndex + 1 ELSE blockIndex

\* isTheOnlyBlock testing for an empty editor instead
isTheOnlyBlockOffByOne(bs) == getBlocksCount(bs) = 0

isTheOnlyBlock(bs) == getBlocksCount(bs) = 1

\* the end of calcInsertPoint without the copy to the target instance
setInsertPointOwn(ips, c, t, ip) == [ips EXCEPT ![c] = ip]

\* the end of calcInsertPoint: this.insertPoint is set and copied to the
\* target instance t
setInsertPoint(ips, c, t, ip) == [ips EXCEPT ![c] = ip, ![t] = ip]

\* setDragListener without its test of this.readOnly
hasDragListenerAlways(c) == TRUE

\* setDragListener makes the settings button draggable, and listens to its
\* drag events, only on an editor that is not read-only
hasDragListener(c) == ~readOnly[c]

\* setBorderBlocks without the removal of the borders of the other blocks
setBorderBlocksKeeping(allBlocks, blockFocused, ip) ==
    [index \in 1..Len(allBlocks) |->
        [allBlocks[index] EXCEPT !.border =
            IF blockFocused = index - 1
            THEN (@ \ Borders) \cup (IF ip > index - 1 THEN {"bottom"} ELSE {"top"})
            ELSE @]]

\* blockFocused is the (0-based) index of the focused element, NULL for null
setBorderBlocks(allBlocks, blockFocused, ip) ==
    [index \in 1..Len(allBlocks) |->
        [allBlocks[index] EXCEPT !.border =
            IF blockFocused = index - 1
            THEN (@ \ Borders) \cup (IF ip > index - 1 THEN {"bottom"} ELSE {"top"})
            ELSE @ \ Borders]]

\* updateTargetBlock of instance s, reading that instance's insertPoint from ips
updateTargetBlock(bl, ips, s, block) ==
    [bl EXCEPT ![s] = setBorderBlocks(bl[s], block, ips[s])]

\* endBlock without the correction for the dragged block's own removal
endBlockUncorrected(start, ip) == ip

\* the index moveBlocks moves the dragged block to, within its own editor
endBlock(start, ip) == IF start < ip THEN ip - 1 ELSE ip

\* onDragEnd also carrying out the pending move within the editor
onDragEndBlocksMoving(c) ==
    LET cleared == updateTargetBlock(blocks, insertPoint, c, NULL)
    IN  IF insertPoint[c] # NULL
        THEN [cleared EXCEPT ![c] = apiMove(@, endBlock(startBlock[c], insertPoint[c]),
                                            startBlock[c])]
        ELSE cleared

\* onDragEnd of controller c: the block elements afterwards
onDragEndBlocks(c) ==
    LET cleared == updateTargetBlock(blocks, insertPoint, c, NULL)
    IN  IF targetInstance[c] # c /\ targetInstance[c] # NULL
        THEN updateTargetBlock(cleared, insertPoint, targetInstance[c], NULL)
        ELSE cleared

\* onDragEnd notifying whenever a target is set, its own editor included
onDragEndNotifiesOwn(c) == targetInstance[c] # NULL

\* onDragEnd notifying whenever the target is not its own editor, null included
onDragEndNotifiesNull(c) == targetInstance[c] # c

\* onDragEnd of controller c: does it reach this.onDragEndCallback()
onDragEndNotifies(c) == targetInstance[c] # c /\ targetInstance[c] # NULL

\* moveBlocks of controller c, up to its end or to `await this.save()`.
\* st = [blocks, pending, calls] is the page while the drop event is dispatched.
moveBlocks(c, st) ==
    IF targetInstance[c] = c
    THEN IF ~isTheOnlyBlock(st.blocks[c])
         THEN LET to == endBlock(startBlock[c], insertPoint[c])
              IN  [st EXCEPT
                     !.blocks[c] = apiMove(st.blocks[c], to, startBlock[c]),
                     !.calls = Append(@, Call(c, c, "move", <<to, startBlock[c]>>))]
         ELSE st
    ELSE [st EXCEPT
            !.pending = Append(@, [by |-> c,
                                   startBlock |-> startBlock[c],
                                   insertPoint |-> insertPoint[c],
                                   targetInstance |-> targetInstance[c],
                                   savedData |-> save(st.blocks[c])]),
            !.calls = Append(@, Call(c, c, "save", <<>>))]

\* the drop listener without the test that the target lies in the holder
dropListenerAnywhere(c, st, target) ==
    IF startBlock[c] = NULL \/ insertPoint[c] = NULL \/ targetInstance[c] = NULL
    THEN st
    ELSE moveBlocks(c, st)

\* the drop listener, if startBlock, insertPoint and targetInstance were shared
\* by the instances of the page instead of belonging to each
dropListenerShared(c, st, target) ==
    IF dragging = NULL
    THEN st
    ELSE IF startBlock[dragging] = NULL \/ insertPoint[dragging] = NULL
              \/ targetInstance[dragging] = NULL
         THEN st
         ELSE IF targetInstance[dragging] = target
              THEN moveBlocks(dragging, st)
              ELSE st

\* the drop listener controller c registered on the document; target is the
\* place the drop event's target element lies in
dropListener(c, st, target) ==
    IF startBlock[c] = NULL \/ insertPoint[c] = NULL \/ targetInstance[c] = NULL
    THEN st
    ELSE IF targetInstance[c] = target   \* this.targetInstance.holder.contains(target)
         THEN moveBlocks(c, st)
         ELSE st

RECURSIVE dispatchDrop(_, _, _)
\* the document runs the drop listeners in the order the controllers registered them
dispatchDrop(c, st, target) ==
    IF c \notin Surfaces THEN st
    ELSE dispatchDrop(c + 1, dropListener(c, st, target), target)

\* the rest of moveBlocks, if it read the fields of the controller after the
\* await instead of the values it took before it
resumeMoveBlocksLate(p, st) ==
    LET start == startBlock[p.by]
        target == targetInstance[p.by]
    IN  IF start + 1 \in DOMAIN p.savedData
        THEN LET data == p.savedData[start + 1]
                 deleted == [st.blocks EXCEPT ![p.by] = apiDelete(@, start)]
             IN  IF target \in Surfaces
                 THEN [blocks |-> [deleted EXCEPT ![target] =
                                       apiInsert(@, data, insertPoint[p.by])],
                       calls |-> st.calls \o
                           <<Call(p.by, p.by, "delete", <<start>>),
                             Call(p.by, target, "insert", <<data, insertPoint[p.by]>>)>>]
                 ELSE [blocks |-> deleted,
                       calls |-> Append(st.calls, Call(p.by, p.by, "delete", <<start>>))]
        ELSE st

\* the rest of moveBlocks once the snapshot p.savedData has arrived
\* st = [blocks, calls]
resumeMoveBlocks(p, st) ==
    IF p.startBlock + 1 \in DOMAIN p.savedData
    THEN LET data == p.savedData[p.startBlock + 1]
             deleted == [st.blocks EXCEPT ![p.by] = apiDelete(@, p.startBlock)]
         IN  [blocks |-> [deleted EXCEPT ![p.targetInstance] =
                                             apiInsert(@, data, p.insertPoint)],
              calls |-> st.calls \o
                  <<Call(p.by, p.by, "delete", <<p.startBlock>>),
                    Call(p.by, p.targetInstance, "insert", <<data, p.insertPoint>>)>>]
    ELSE st   \* blockData is undefined: destructuring it throws

----------------------------------------------------------------------------
\* The state after construction

NoPointer == [place |-> NULL, clientY |-> NULL, rectTop |-> NULL,
              rectHeight |-> NULL, blockIndex |-> NULL]

\* count: the gestures started so far; the other fields describe the gesture
\* started last: its source controller, the drop events it received and the
\* place of the last one, the moveBlocks runs that called move or save, the
\* surface its last resolving drag event resolved, whether a drag event ever
\* resolved a surface other than the source, the onDragEndCallback calls
NoGesture == [count |-> 0, source |-> NULL, drops |-> 0, dropTarget |-> NULL,
              executed |-> 0, lastTarget |-> NULL, crossed |-> FALSE,
              callbacks |-> 0]

Init ==
    /\ blocks = InitBlocks
    /\ readOnly \in {[s \in Surfaces |-> FALSE], [s \in Surfaces |-> s # 1]}
    /\ startBlock = [c \in Surfaces |-> NULL]
    /\ insertPoint = [c \in Surfaces |-> NULL]
    /\ targetInstance = [c \in Surfaces |-> NULL]
    /\ dragging = NULL
    /\ pending = <<>>
    /\ pointer = NoPointer
    /\ calls = <<>>
    /\ gesture = NoGesture

----------------------------------------------------------------------------
\* Event handlers

\* the block elements of the editor at place: block.parentNode.children
Siblings(place) == IF place = Unbound THEN UnboundEditor ELSE blocks[place]

\* the (0-based) indices of the elements bs
Indices(bs) == 0..(Len(bs) - 1)

\* the pointer positions over the element of index i of bs: from the top of
\* its bounding rectangle to its bottom
PointerYs(bs, i) == Top(bs, i)..(Top(bs, i) + Height(bs[i + 1]))

\* "dragstart" on the settings button of controller c; the toolbar is open on
\* the block of index i, which api.getCurrentBlockIndex() returns
dragstart(c, i) ==
    /\ dragging = NULL
    /\ hasDragListener(c)
    /\ gesture.count < MaxGestures
    /\ i \in Indices(blocks[c])
    /\ startBlock' = [startBlock EXCEPT ![c] = i]
    /\ dragging' = c
    /\ pointer' = NoPointer
    /\ calls' = <<>>
    /\ gesture' = [NoGesture EXCEPT !.count = gesture.count + 1, !.source = c]
    /\ UNCHANGED <<blocks, readOnly, insertPoint, targetInstance, pending>>

\* "drag" while document.querySelector(".ce-block--drop-target") is null
dragNoTarget ==
    /\ dragging # NULL
    /\ pointer' = NoPointer
    /\ calls' = <<>>
    /\ UNCHANGED <<blocks, readOnly, startBlock, insertPoint, targetInstance,
                   dragging, pending, gesture>>

\* "drag" while the drop target lies in no .codex-editor: getInstance throws
dragNotFound ==
    /\ dragging # NULL
    /\ pointer' = NoPointer
    /\ calls' = <<>>
    /\ UNCHANGED <<blocks, readOnly, startBlock, insertPoint, targetInstance,
                   dragging, pending, gesture>>

\* "drag" while the drop target is the block of index blockIndex of the editor
\* at place, with the pointer at clientY; record says whether the history
\* variable pointer keeps the geometry of this event
dragOver(place, blockIndex, clientY, record) ==
    /\ dragging # NULL
    /\ LET c == dragging
           t == getInstance(place)
           rectTop == Top(Siblings(place), blockIndex)
           rectHeight == Height(Siblings(place)[blockIndex + 1])
           ip == calcInsertPoint(clientY, rectTop, rectHeight, blockIndex)
       IN  /\ blockIndex \in Indices(Siblings(place))
           /\ clientY \in PointerYs(Siblings(place), blockIndex)
           /\ pointer' = IF record
                         THEN [place |-> place, clientY |-> clientY,
                               rectTop |-> rectTop, rectHeight |-> rectHeight,
                               blockIndex |-> blockIndex]
                         ELSE NoPointer
           /\ calls' = <<>>
           /\ IF t = NULL
              THEN \* calcInsertPoint sets this.insertPoint, then throws on
                   \* targetInstance.insertPoint
                   /\ insertPoint' = [insertPoint EXCEPT ![c] = ip]
                   /\ UNCHANGED <<blocks, targetInstance, gesture>>
              ELSE LET ips == setInsertPoint(insertPoint, c, t, ip)
                       marked == updateTargetBlock(blocks, ips, t, blockIndex)
                   IN  /\ insertPoint' = ips
                       /\ blocks' =
                            IF ~isTheOnlyBlock(blocks[c]) \/ t # c
                            THEN IF targetInstance[c] # NULL /\ targetInstance[c] # t
                                 THEN updateTargetBlock(marked, ips, targetInstance[c], NULL)
                                 ELSE marked
                            ELSE blocks
                       /\ targetInstance' = [targetInstance EXCEPT ![c] = t]
                       /\ gesture' = [gesture EXCEPT !.crossed = @ \/ t # c,
                                                     !.lastTarget = t]
    /\ UNCHANGED <<readOnly, startBlock, dragging, pending>>

\* "dragend" on the settings button
dragend ==
    /\ dragging # NULL
    /\ LET c == dragging
       IN  /\ blocks' = onDragEndBlocks(c)
           /\ calls' = IF onDragEndNotifies(c)
                       THEN <<Call(c, NULL, "onDragEndCallback", <<>>)>>
                       ELSE <<>>
           /\ gesture' = [gesture EXCEPT !.callbacks =
                              IF onDragEndNotifies(c) THEN @ + 1 ELSE @]
           /\ startBlock' = [startBlock EXCEPT ![c] = NULL]
           /\ targetInstance' = [targetInstance EXCEPT ![c] = NULL]
           /\ pointer' = NoPointer
    /\ dragging' = NULL
    /\ UNCHANGED <<readOnly, insertPoint, pending>>

\* a "drop" event reaches the document; its target element lies in `target`
dropEvent(target) ==
    LET st == dispatchDrop(1, [blocks |-> blocks, pending |-> pending, calls |-> <<>>],
                           target)
    IN  /\ blocks' = st.blocks
        /\ pending' = st.pending
        /\ calls' = st.calls
        /\ pointer' = NoPointer
        /\ gesture' = [gesture EXCEPT !.drops = @ + 1,
                                      !.dropTarget = target,
                                      !.executed = @ + Len(st.calls)]
        /\ UNCHANGED <<readOnly, startBlock, insertPoint, targetInstance, dragging>>

\* the one drop event the browser delivers for a gesture, before its dragend
drop(target) ==
    /\ dragging # NULL
    /\ gesture.drops = 0
    /\ dropEvent(target)

\* a further drop event delivered within the same gesture
dropAgain(target) ==
    /\ dragging # NULL
    /\ gesture.drops \in 1..(MaxDropsPerGesture - 1)
    /\ dropEvent(target)

\* the promise of the k-th suspended this.save() resolves
saved(k) ==
    /\ k \in 1..Len(pending)
    /\ LET st == resumeMoveBlocks(pending[k], [blocks |-> blocks, calls |-> <<>>])
       IN  /\ blocks' = st.blocks
           /\ calls' = st.calls
    /\ pending' = RemoveAt(pending, k - 1)
    /\ pointer' = NoPointer
    /\ UNCHANGED <<readOnly, startBlock, insertPoint, targetInstance, dragging, gesture>>

\* "drag" over a block, as the page sees it
drag(place, blockIndex, clientY) == dragOver(place, blockIndex, clientY, FALSE)

\* "drag" over a block, with the event's geometry kept for inspection
dragAt(place, blockIndex, clientY) == dragOver(place, blockIndex, clientY, TRUE)

Next ==
    \/ \E c \in Surfaces : \E i \in Indices(blocks[c]) : dragstart(c, i)
    \/ dragNoTarget
    \/ dragNotFound
    \/ \E place \in Places :
         \E blockIndex \in Indices(Siblings(place)) :
           \E clientY \in PointerYs(Siblings(place), blockIndex) :
             drag(place, blockIndex, clientY)
    \/ dragend
    \/ \E target \in Places : drop(target)
    \/ \E k \in DOMAIN pending : saved(k)

Spec == Init /\ [][Next]_vars

\* the same page when drop events are delivered re-entrantly
NextReentrant ==
    \/ Next
    \/ \E target \in Places : dropAgain(target)

SpecReentrant == Init /\ [][NextReentrant]_vars

\* drag gestures that are never dropped, every drag event's geometry recorded
NextPointer ==
    \/ \E c \in Surfaces : \E i \in Indices(blocks[c]) : dragstart(c, i)
    \/ \E place \in Places :
         \E blockIndex \in Indices(Siblings(place)) :
           \E clientY \in PointerYs(Siblings(place), blockIndex) :
             dragAt(place, blockIndex, clientY)
    \/ dragend

SpecPointer == Init /\ [][NextPointer]_vars

----------------------------------------------------------------------------
\* Properties

Range(f) == {f[i] : i \in DOMAIN f}

\* the document of surface s: the saved data of its blocks, in order
Document(s) == save(blocks[s])

Documents == [s \in Surfaces |-> Document(s)]

HasBorder(s) == \E i \in DOMAIN blocks[s] : blocks[s][i].border # {}

\* the step is a drop event whose target element lies in place
DropStep(place) ==
    /\ gesture'.count = gesture.count
    /\ gesture'.drops = gesture.drops + 1
    /\ gesture'.dropTarget = place

\* the step is the arrival of a snapshot a transfer waited for
SavedStep == Len(pending') < Len(pending)

\* C1: a drop inside the dragging controller's own surface, which has N > 1
\* blocks, with dragged index s < N and insertion point p in 0..N, calls
\* move(d, s) with d = p - 1 if p > s and d = p otherwise; afterwards the
\* dragged block is at index d, the other blocks keep their order and the
\* surface still has N blocks.
C1_SameSurfaceMove ==
    [][\A c \in Surfaces :
        (/\ DropStep(c)
         /\ startBlock[c] # NULL /\ insertPoint[c] # NULL /\ targetInstance[c] = c
         /\ Len(blocks[c]) > 1
         /\ startBlock[c] < Len(blocks[c])
         /\ insertPoint[c] <= Len(blocks[c]))
        => LET s == startBlock[c]
               p == insertPoint[c]
               d == IF p > s THEN p - 1 ELSE p
           IN  /\ calls' = <<Call(c, c, "move", <<d, s>>)>>
               /\ Len(blocks'[c]) = Len(blocks[c])
               /\ blocks'[c][d + 1] = blocks[c][s + 1]
               /\ RemoveAt(blocks'[c], d) = RemoveAt(blocks[c], s)
               /\ \A o \in Surfaces \ {c} : blocks'[o] = blocks[o]]_vars

\* [P, Q, R] with Q dragged below R: move(2, 1) was called and gave [P, R, Q]
C1_Witness ==
    /\ calls = <<Call(1, 1, "move", <<2, 1>>)>>
    /\ insertPoint[1] = 3
    /\ Document(1) = <<1, 3, 2>>

\* C2: when a transfer between two surfaces completes (delete and insert have
\* been called), the source has one block less, the target one block more,
\* and the block at insertIndex in the target has the data the block at
\* sourceIndex in the source had before.
C2_Transfer ==
    [][\A k \in DOMAIN pending :
        (SavedStep /\ pending' = RemoveAt(pending, k - 1) /\ calls' # <<>>)
        => LET p == pending[k]
           IN  /\ Len(blocks'[p.by]) = Len(blocks[p.by]) - 1
               /\ Len(blocks'[p.targetInstance]) = Len(blocks[p.targetInstance]) + 1
               /\ p.insertPoint + 1 \in DOMAIN blocks'[p.targetInstance]
               /\ p.startBlock + 1 \in DOMAIN blocks[p.by]
               /\ blocks'[p.targetInstance][p.insertPoint + 1].data =
                      blocks[p.by][p.startBlock + 1].data]_vars

\* C3: move is never called on a surface that has exactly one block.
C3_OnlyBlockNeverMoved ==
    \A i \in DOMAIN calls : calls[i].op = "move" => Len(blocks[calls[i].api]) # 1

\* the only block of surface 2 was dragged over its own surface and dropped there
C3_Witness ==
    /\ dragging = 2 /\ gesture.drops = 1 /\ gesture.dropTarget = 2
    /\ startBlock[2] = 0 /\ targetInstance[2] = 2 /\ insertPoint[2] = 1
    /\ Len(blocks[2]) = 1
    /\ calls = <<>>

\* C4: every step other than a drop event and the arrival of a snapshot, that
\* is every drag-start, drag-move and drag-end, leaves every surface's
\* document as it is and calls none of move, delete, insert and save, so a
\* gesture that receives no drop changes no document.
C4_CancelLeavesDocuments ==
    [][(~SavedStep /\ \A place \in Places : ~DropStep(place))
       => /\ Documents' = Documents
          /\ pending' = pending
          /\ \A i \in DOMAIN calls' : calls'[i].op = "onDragEndCallback"]_vars

\* a gesture that hovered the other surface has ended without a drop, and the
\* documents are the initial ones
C4_Witness ==
    /\ dragging = NULL /\ gesture.count = 1 /\ gesture.drops = 0
    /\ gesture.crossed /\ insertPoint[1] = 3 /\ insertPoint[2] = 0
    /\ Documents = [s \in Surfaces |-> save(InitBlocks[s])]

\* C5: after drag-end no block of any surface carries a top or bottom border.
C5_NoMarkerAfterDragEnd ==
    dragging = NULL => \A s \in Surfaces : ~HasBorder(s)

\* C6 as amended: for a block of index i the insertion point is i for every
\* pointer Y above or at the block's vertical midpoint and i + 1 for every Y
\* strictly below it.
C6_InsertPointAtOrAbove ==
    pointer # NoPointer =>
        insertPoint[dragging] =
            IF 2 * pointer.clientY <= 2 * pointer.rectTop + pointer.rectHeight
            THEN pointer.blockIndex
            ELSE pointer.blockIndex + 1

\* the pointer is exactly at the midpoint of the block of index 1
C6_Witness ==
    /\ pointer # NoPointer
    /\ 2 * pointer.clientY = 2 * pointer.rectTop + pointer.rectHeight
    /\ pointer.blockIndex = 1
    /\ insertPoint[dragging] = 1

\* C6 as claimed: i for every Y strictly above the midpoint, i + 1 for every Y
\* at or below it.
C6_InsertPointStrictlyAbove ==
    pointer # NoPointer =>
        insertPoint[dragging] =
            IF 2 * pointer.clientY < 2 * pointer.rectTop + pointer.rectHeight
            THEN pointer.blockIndex
            ELSE pointer.blockIndex + 1

\* C7: within one gesture at most one drop event makes a controller start a
\* move or a transfer.
C7_MoveAtMostOnce == gesture.executed <= 1

\* C8: a gesture in which no drag event resolved a surface other than the
\* source does not call onDragEndCallback.
C8_NoCallbackAtOrigin == ~gesture.crossed => gesture.callbacks = 0

\* a gesture that hovered its own surface only has ended
C8_Witness ==
    /\ dragging = NULL /\ gesture.count = 1
    /\ ~gesture.crossed /\ gesture.lastTarget = gesture.source
    /\ gesture.callbacks = 0

\* C9 as claimed: at drag-end the callback has been called exactly once in
\* every gesture in which some drag event resolved a surface other than the
\* source, and never more than once.
C9_CallbackOncePerCrossing ==
    /\ gesture.callbacks <= 1
    /\ (dragging = NULL /\ gesture.count > 0 /\ gesture.crossed)
           => gesture.callbacks = 1

\* C9 as amended: at drag-end the callback has been called exactly once when
\* the surface resolved by the gesture's last resolving drag event is a
\* surface other than the source, and not at all otherwise.
C9_CallbackOnFinalTarget ==
    /\ gesture.callbacks <= 1
    /\ (dragging = NULL /\ gesture.count > 0)
           => gesture.callbacks =
                  IF gesture.lastTarget \notin {NULL, gesture.source} THEN 1 ELSE 0

\* a gesture has ended over the other surface and the callback was called
C9_Witness ==
    /\ dragging = NULL /\ gesture.count = 1
    /\ gesture.lastTarget \notin {NULL, gesture.source}
    /\ gesture.callbacks = 1
    /\ calls = <<Call(gesture.source, NULL, "onDragEndCallback", <<>>)>>

\* C10: the controller of a read-only surface has startBlock unset, is never
\* the source of a gesture, and calls neither move nor delete (nor suspends in
\* a transfer that would call delete).
C10_ReadOnlyNeverDrags ==
    \A c \in Surfaces :
        readOnly[c] =>
            /\ startBlock[c] = NULL
            /\ dragging # c /\ gesture.source # c
            /\ \A i \in DOMAIN calls : calls[i].by # c
            /\ \A k \in DOMAIN pending : pending[k].by # c

\* a block was dragged over the read-only surface and dropped there
C10_Witness ==
    /\ readOnly[2]
    /\ gesture.drops = 1 /\ gesture.dropTarget = 2 /\ gesture.lastTarget = 2
    /\ insertPoint[2] # NULL

\* C11: a drop event makes a controller call nothing and changes nothing of
\* its session when its startBlock, insertPoint or targetInstance is unset or
\* the event's target lies outside its targetInstance's holder; when that is so
\* of every controller, the event changes no block and suspends no transfer.
C11_DropIgnored ==
    [][\A target \in Places :
        DropStep(target) =>
            LET Ignores(c) == \/ startBlock[c] = NULL
                              \/ insertPoint[c] = NULL
                              \/ targetInstance[c] = NULL
                              \/ targetInstance[c] # target
            IN  /\ \A c \in Surfaces :
                     Ignores(c) => \A i \in DOMAIN calls' : calls'[i].by # c
                /\ <<startBlock, insertPoint, targetInstance>>' =
                       <<startBlock, insertPoint, targetInstance>>
                /\ (\A c \in Surfaces : Ignores(c)) =>
                       /\ calls' = <<>>
                       /\ blocks' = blocks
                       /\ pending' = pending]_vars

\* a drop outside the holder of the target surface 2 was ignored
C11_Witness ==
    /\ dragging = 1 /\ startBlock[1] = 1 /\ insertPoint[1] = 1
    /\ targetInstance[1] = 2
    /\ gesture.drops = 1 /\ gesture.dropTarget = 1 /\ gesture.executed = 0
    /\ calls = <<>> /\ pending = <<>>
    /\ Documents = [s \in Surfaces |-> save(InitBlocks[s])]

\* C12: a drag tick over the dragging surface itself, when that surface has
\* exactly one block, changes no border of any surface and leaves the
\* targetInstance of every controller as it was before the tick.
C12_SuppressedTickChangesNothing ==
    [][(/\ pointer' # NoPointer
        /\ dragging # NULL
        /\ pointer'.place = dragging
        /\ isTheOnlyBlock(blocks[dragging]))
       => /\ blocks' = blocks
          /\ targetInstance' = targetInstance]_vars

\* C13: while a drag is in progress, every surface that has a block with a
\* border is the targetInstance of the dragging controller.
C13_BorderOnlyOnTarget ==
    dragging # NULL =>
        \A s \in Surfaces : HasBorder(s) => targetInstance[dragging] = s

\* the edges that carry a border, block by block, on surface s
Markers(s) == [i \in DOMAIN blocks[s] |-> blocks[s][i].border]

\* at most one block of each surface has a border, on one edge only
AtMostOneMarker ==
    \A s \in Surfaces :
        /\ Cardinality({i \in DOMAIN blocks[s] : blocks[s][i].border # {}}) <= 1
        /\ \A i \in DOMAIN blocks[s] : Cardinality(blocks[s][i].border) <= 1

\* the block of s with a border has it on top when the insertPoint of s is the
\* block's index and at the bottom when the insertPoint is greater
MarkerMatchesInsertPoint(bs, ip) ==
    \A i \in DOMAIN bs :
        bs[i].border # {} =>
            \/ bs[i].border = {"top"} /\ ip = i - 1
            \/ bs[i].border = {"bottom"} /\ ip > i - 1

\* C14 as stated: in every reachable state each surface has at most one block
\* with a border, on top when the surface's insertPoint equals the block's
\* index and at the bottom when it is greater.
C14_MarkerMatchesInsertPoint ==
    /\ AtMostOneMarker
    /\ \A s \in Surfaces : MarkerMatchesInsertPoint(blocks[s], insertPoint[s])

\* C14, amended: in every reachable state each surface has at most one block
\* with a border, on exactly one edge; and whenever a drag tick changes the
\* borders of a surface, the block it marks has the border on top when the
\* surface's insertPoint equals the block's index and at the bottom when the
\* insertPoint is greater.
C14_MarkerFollowsTick ==
    /\ []AtMostOneMarker
    /\ [][\A s \in Surfaces :
            (/\ gesture'.drops = gesture.drops
             /\ ~SavedStep
             /\ Markers(s)' # Markers(s))
            => MarkerMatchesInsertPoint(blocks'[s], insertPoint'[s])]_vars

\* a tick below the midpoint of block 1 of surface 1 marked its bottom edge
C14_Witness ==
    /\ dragging = 1 /\ gesture.drops = 0 /\ targetInstance[1] = 1
    /\ blocks[1][2].border = {"bottom"} /\ insertPoint[1] = 2
    /\ blocks[1][1].border = {} /\ blocks[1][3].border = {}

\* C15: after every dragend the startBlock, targetInstance and insertPoint of
\* the controller that was dragging are unset, and right after every dragstart
\* the targetInstance and insertPoint of the dragging controller are unset.
C15_SessionCleared ==
    [][/\ (dragging # NULL /\ dragging' = NULL) =>
              /\ startBlock'[dragging] = NULL
              /\ targetInstance'[dragging] = NULL
              /\ insertPoint'[dragging] = NULL
       /\ (dragging = NULL /\ dragging' # NULL) =>
              /\ targetInstance'[dragging'] = NULL
              /\ insertPoint'[dragging'] = NULL]_vars

\* the insert point calcInsertPoint computes from the recorded drag event
PointerInsertPoint(e) ==
    calcInsertPoint(e.clientY, e.rectTop, e.rectHeight, e.blockIndex)

C17_UnresolvedTickKeepsSession ==
    [][(pointer' # NoPointer /\ pointer'.place \notin Surfaces)
       => <<startBlock, targetInstance, insertPoint>>' =
              <<startBlock, targetInstance, insertPoint>>]_vars

\* C18: a drop that starts a transfer keeps the startBlock, insertPoint and
\* targetInstance the dragging controller has at the drop, and when the snapshot
\* arrives the delete is called on the source at that startBlock and the insert
\* on that target at that insertPoint, whatever a dragend has made of the
\* controller's fields in the meantime.
C18_TransferUsesValuesAtDrop ==
    [][/\ \A target \in Places :
            (DropStep(target) /\ Len(pending') > Len(pending)) =>
                LET p == pending'[Len(pending')]
                IN  /\ p.by = dragging
                    /\ p.startBlock = startBlock[dragging]
                    /\ p.insertPoint = insertPoint[dragging]
                    /\ p.targetInstance = targetInstance[dragging]
                    /\ p.targetInstance = target
       /\ SavedStep =>
            \A k \in DOMAIN pending :
                (/\ pending' = RemoveAt(pending, k - 1)
                 /\ pending[k].startBlock + 1 \in DOMAIN pending[k].savedData)
                => LET p == pending[k]
                       data == p.savedData[p.startBlock + 1]
                   IN  calls' =
                         <<Call(p.by, p.by, "delete", <<p.startBlock>>),
                           Call(p.by, p.targetInstance, "insert",
                                <<data, p.insertPoint>>)>>]_vars

\* block 1 of surface 1 was dropped on surface 2, the dragend came while the
\* snapshot was pending, and the snapshot has just arrived
C18_Witness ==
    /\ gesture.count = 1 /\ gesture.source = 1 /\ gesture.drops = 1
    /\ dragging = NULL /\ startBlock[1] = NULL /\ targetInstance[1] = NULL
    /\ pending = <<>>
    /\ calls = <<Call(1, 1, "delete", <<1>>), Call(1, 2, "insert", <<2, 1>>)>>
    /\ Document(1) = <<1, 3>> /\ Document(2) = <<4, 2>>

\* C19: of the drop listeners of all the controllers, at most one runs a move
\* or starts a transfer on a drop event, and it is the listener of the
\* controller whose dragstart began the gesture.
C19_OnlySourceExecutes ==
    LET executed == {i \in DOMAIN calls : calls[i].op \in {"move", "save"}}
    IN  /\ Cardinality(executed) <= 1
        /\ \A i \in executed : calls[i].by = gesture.source /\ calls[i].api = gesture.source

\* a drop inside surface 2 of a block dragged from surface 1: controller 2,
\* which has the mirrored insertPoint, called nothing
C19_Witness ==
    /\ dragging = 1 /\ gesture.source = 1
    /\ gesture.drops = 1 /\ gesture.dropTarget = 2
    /\ insertPoint[2] # NULL
    /\ calls = <<Call(1, 1, "save", <<>>)>>

\* C20: the blocks of a read-only surface are never changed: insert is never
\* called on its editor, and no transfer has it as targetInstance.
C20_ReadOnlyNeverTarget ==
    \A s \in Surfaces :
        readOnly[s] =>
            /\ Document(s) = save(InitBlocks[s])
            /\ \A i \in DOMAIN calls : ~(calls[i].op = "insert" /\ calls[i].api = s)
            /\ \A k \in DOMAIN pending : pending[k].targetInstance # s

====
